---------------------------- MODULE Spec2Model ----------------------------
(***************************************************************************)
(* Tora-face: the face engine (src/auth.py, the two revisions of           *)
(* FaceRecognitionEngine) and the upload route that drives it.             *)
(*                                                                         *)
(* Units.  A threshold is an integer number of tenths (6 is 0.6).  A       *)
(* reported similarity_percentage is an integer number of hundredths of a  *)
(* percent (8000 is 80.00), a reported distance an integer number of       *)
(* ten-thousandths (10000 is 1.0): these are the grids round(x, 2) and     *)
(* round(x, 4) produce.  The cosine similarity itself is never rounded in  *)
(* the model: it is kept as dot / sqrt(nk2 * nu2) and compared exactly.    *)
(***************************************************************************)
EXTENDS Integers, Sequences, FiniteSets, TLC

VARIABLES
    revision,               \* which FaceRecognitionEngine class is deployed
    env,                    \* SIMILARITY_THRESHOLD in the environment: <<>> unset, <<t>> set
    similarity_threshold,   \* self.similarity_threshold, in tenths
    fpErr,                  \* sign of the rounding error of norm_known * norm_unknown
    cmpIn,                  \* arguments of the last compare_faces call
    cmpOut,                 \* what that call returned
    encIn,                  \* argument of the last create_face_encoding call
    encOut,                 \* what that call returned
    detIn,                  \* what OpenCV makes of the image of the last detect_faces call
    detOut,                 \* what that call returned
    pc,                     \* where each request is in process_uploaded_image
    image,                  \* image_data of each request
    temp_path,              \* temp_path of each request
    linked,                 \* whether the file a request opened is still at temp_path
    fs,                     \* the files under /tmp: path -> content
    seen,                   \* what cv2.imread read for detect_faces in each request
    attributes,             \* attributes of each request
    ended,                  \* how process_uploaded_image ended for each request
    response,               \* what the route answered to each request
    authRevision,           \* which src.firebase.auth module is deployed
    store,                  \* Firebase: the accounts and the police_users documents
    webIn,                  \* the request a route of the API receives
    webOut,                 \* what the route did and answered
    pwIn,                   \* argument of the last validate_password call
    pwOut,                  \* the pair that call returned
    logPc,                  \* where each log_search_activity call is
    logUid,                 \* the uid each call logs for
    history,                \* search_history: the number of records per user_uid
    search_count            \* search_count of each police_users document

engineVars == <<revision, env, similarity_threshold, fpErr>>

callVars == <<cmpIn, cmpOut, encIn, encOut>>

detVars == <<detIn, detOut>>

uploadVars ==
    <<pc, image, temp_path, linked, fs, seen, attributes, ended, response>>

webVars == <<authRevision, store, webIn, webOut>>

pwVars == <<pwIn, pwOut>>

logVars == <<logPc, logUid, history, search_count>>

vars == <<engineVars, callVars, detVars, uploadVars, webVars, pwVars, logVars>>

(***************************************************************************)
(* Bounds of the model: the longest encoding compare_faces is given (the   *)
(* probe vectors aside), and the number of requests in flight.             *)
(***************************************************************************)
MaxLen == 2

NumRequests == 2

\* The most windows the face detector accepts in an image, and the most
\* eyes the eye detector finds in a window.
MaxFaces == 2

MaxEyes == 2

MaxTail == 4

(***************************************************************************)
(* The engine and its configuration.                                       *)
(***************************************************************************)
Revisions == {"simplified", "enhanced"}

\* Values of SIMILARITY_THRESHOLD tried, in tenths: -0.5, 0, 0.8, 1.0, 1.5.
EnvValues == {<<>>, <<-5>>, <<0>>, <<8>>, <<10>>, <<15>>}

DefaultThreshold == 6

Min(a, b) == IF a < b THEN a ELSE b

Max(a, b) == IF a > b THEN a ELSE b

\* os.getenv('SIMILARITY_THRESHOLD', 0.6) then float(...)
getenv_threshold(e) == IF e = <<>> THEN DefaultThreshold ELSE e[1]

\* FaceRecognitionEngine.__init__: the enhanced revision clamps into [0, 1],
\* the simplified revision takes the value as it is.
engine_init(rev, e) ==
    IF rev = "enhanced"
    THEN Max(0, Min(10, getenv_threshold(e)))
    ELSE getenv_threshold(e)

(***************************************************************************)
(* Exact comparison of fractions, without forming a product.               *)
(***************************************************************************)
RECURSIVE FracLeq(_, _, _, _)
\* a/b <= c/d for a, c >= 0 and b, d > 0, by Euclid's algorithm.
FracLeq(a, b, c, d) ==
    LET qa == a \div b
        qc == c \div d
        ra == a % b
        rc == c % d
    IN  IF qa < qc THEN TRUE
        ELSE IF qa > qc THEN FALSE
        ELSE IF ra = 0 THEN TRUE
        ELSE IF rc = 0 THEN FALSE
        ELSE FracLeq(d, rc, b, ra)

RECURSIVE IsqrtFrom(_, _)
IsqrtFrom(n, r) == IF (r + 1) * (r + 1) > n THEN r ELSE IsqrtFrom(n, r + 1)

IsSquare(n) == LET r == IsqrtFrom(n, 0) IN r * r = n


(***************************************************************************)
(* Encodings as compare_faces receives them (a JSON list from the client   *)
(* or a stored encoding): v holds the numbers, nonnum says that some       *)
(* element is not a number (a string), for which numpy raises.             *)
(***************************************************************************)
Vals == {-1, 0, 1}

Numeric(v) == [v |-> v, nonnum |-> FALSE]

\* Vectors whose cosine sits on or just above a label boundary:
\* <<1,0>>.<<4,3>> is 0.8 and <<1,0>>.<<3,4>> is 0.6 with exact norms,
\* <<1,1>>.<<1,7>> is 0.8 with inexact norms, <<1,0,0,0>>.<<72,53,9,5>> is
\* 0.800049 and <<1,0,0,0,0>>.<<48,63,11,2,1>> is 0.600047.
ProbeVectors ==
    { <<4, 3>>, <<3, 4>>, <<1, 7>>, <<1, 0, 0, 0>>, <<72, 53, 9, 5>>,
      <<1, 0, 0, 0, 0>>, <<48, 63, 11, 2, 1>> }

Encodings ==
    { Numeric(v) : v \in UNION { [1..n -> Vals] : n \in 0..MaxLen } }
    \cup { Numeric(v) : v \in ProbeVectors }
    \cup { [v |-> <<1, 0>>, nonnum |-> TRUE] }

RECURSIVE Dot(_, _)
\* np.dot of two vectors of equal length
Dot(a, b) == IF a = <<>> THEN 0 ELSE a[1] * b[1] + Dot(Tail(a), Tail(b))

Abs(x) == IF x < 0 THEN 0 - x ELSE x

RECURSIVE SumAbs(_)
SumAbs(a) == IF a = <<>> THEN 0 ELSE Abs(a[1]) + SumAbs(Tail(a))

\* NormSq altered: the sum of the absolute values in place of the
\* Euclidean norm.
NormSq_l1(a) == SumAbs(a) * SumAbs(a)

\* np.linalg.norm, squared
NormSq(a) == Dot(a, a)

(***************************************************************************)
(* The similarity as a real number: num / sqrt(den2), with exact saying    *)
(* that the floating-point computation of it is exact (both norms are      *)
(* whole numbers, or the dot product is 0).  When it is not, the computed  *)
(* double differs from the real number by a rounding error of sign fpErr:  *)
(* compare_faces([1,1],[1,1]) computes 0.9999999999999998 and              *)
(* compare_faces([1,1,1],[1,1,1]) computes 1.0000000000000002.             *)
(***************************************************************************)
ZeroSim == [num |-> 0, den2 |-> 1, exact |-> TRUE]

\* similarity_of altered: the dot product is divided by norm_known twice.
similarity_of_known_twice(k, u) ==
    IF NormSq(k) = 0 \/ NormSq(u) = 0 THEN ZeroSim
    ELSE [ num |-> Dot(k, u), den2 |-> NormSq(k) * NormSq(k),
           exact |-> IsSquare(NormSq(k)) \/ Dot(k, u) = 0 ]

\* similarity_of altered: a zero norm gives similarity 1 instead of 0.
similarity_of_zero_is_one(k, u) ==
    IF NormSq(k) = 0 \/ NormSq(u) = 0
    THEN [num |-> 1, den2 |-> 1, exact |-> TRUE]
    ELSE [ num |-> Dot(k, u), den2 |-> NormSq(k) * NormSq(u),
           exact |-> (IsSquare(NormSq(k)) /\ IsSquare(NormSq(u))) \/ Dot(k, u) = 0 ]

\* compare_faces: dot_product, the two norms and the guarded division
similarity_of(k, u) ==
    IF NormSq(k) = 0 \/ NormSq(u) = 0
    THEN ZeroSim
    ELSE [ num |-> Dot(k, u), den2 |-> NormSq(k) * NormSq(u),
           exact |-> (IsSquare(NormSq(k)) /\ IsSquare(NormSq(u))) \/ Dot(k, u) = 0 ]

FracCmp(a, b, c, d) ==
    IF FracLeq(a, b, c, d) THEN (IF FracLeq(c, d, a, b) THEN 0 ELSE -1) ELSE 1

\* The sign of  sim - p/q  as real numbers (q > 0).
SimCmp(sim, p, q) ==
    IF sim.num >= 0 /\ p <= 0 THEN (IF sim.num = 0 /\ p = 0 THEN 0 ELSE 1)
    ELSE IF sim.num <= 0 /\ p >= 0 THEN -1
    ELSE IF sim.num > 0
         THEN FracCmp(sim.num * sim.num, sim.den2, p * p, q * q)
         ELSE FracCmp(p * p, q * q, sim.num * sim.num, sim.den2)

\* computed sim >= p/q  and  computed sim > p/q, in floating point
SimGeq(sim, p, q, err) ==
    LET c == SimCmp(sim, p, q) IN c > 0 \/ (c = 0 /\ (sim.exact \/ err >= 0))

SimGt(sim, p, q, err) ==
    LET c == SimCmp(sim, p, q) IN c > 0 \/ (c = 0 /\ ~sim.exact /\ err > 0)

RECURSIVE RoundSearch(_, _, _, _)
\* The largest r in lo..hi with r - 1/2 <= 10^4 * sqrt(n2 / d2).
RoundSearch(n2, d2, lo, hi) ==
    IF lo = hi THEN lo
    ELSE LET mid == (lo + hi + 1) \div 2
         IN  IF FracLeq((2 * mid - 1) * (2 * mid - 1), 400000000, n2, d2)
             THEN RoundSearch(n2, d2, mid, hi)
             ELSE RoundSearch(n2, d2, lo, mid - 1)

\* Round4 altered: the sign of the similarity is dropped.
Round4_unsigned(sim) ==
    RoundSearch(sim.num * sim.num, sim.den2, 0, 10000)

\* round(sim * 10^4): the similarity to four decimals, as an integer
Round4(sim) ==
    LET r == RoundSearch(sim.num * sim.num, sim.den2, 0, 10000)
    IN  IF sim.num >= 0 THEN r ELSE 0 - r

(***************************************************************************)
(* compare_faces.                                                          *)
(***************************************************************************)
HighPct == 80

MediumPct == 60

\* confidence_label altered: >= where the code has >.
confidence_label_geq(sim, err) ==
    IF SimGeq(sim, HighPct, 100, err) THEN "High"
    ELSE IF SimGeq(sim, MediumPct, 100, err) THEN "Medium"
    ELSE "Low"

\* 'High' if similarity_percentage > 80 else 'Medium' if > 60 else 'Low',
\* on the percentage before it is rounded: max(0, sim * 100) > 80 iff sim >
\* 0.8
confidence_label(sim, err) ==
    IF SimGt(sim, HighPct, 100, err) THEN "High"
    ELSE IF SimGt(sim, MediumPct, 100, err) THEN "Medium"
    ELSE "Low"

\* What the except clause of compare_faces returns.
ErrorResult ==
    [is_match |-> FALSE, similarity_percentage |-> 0, distance |-> 10000,
     confidence |-> "Error"]

Raised == [raised |-> TRUE, value |-> ErrorResult]

Returned(x) == [raised |-> FALSE, value |-> x]

\* The try block of compare_faces: np.array raises (enhanced, dtype=float) or
\* np.dot raises (simplified) on a non-numeric element, np.dot raises on two
\* lengths that differ; otherwise the dictionary is built.
compare_body(known, unknown, thr, err) ==
    IF known.nonnum \/ unknown.nonnum THEN Raised
    ELSE IF Len(known.v) # Len(unknown.v) THEN Raised
    ELSE LET sim == similarity_of(known.v, unknown.v)
         IN  Returned([ is_match |-> SimGeq(sim, thr, 10, err),
                        similarity_percentage |-> Max(0, Round4(sim)),
                        distance |-> 10000 - Round4(sim),
                        confidence |-> confidence_label(sim, err) ])

\* compare_faces altered: no except clause, the exception propagates.
compare_faces_noexcept(known, unknown, thr, err) ==
    compare_body(known, unknown, thr, err)

\* compare_faces: the try block, and the default dictionary on any exception.
compare_faces(known, unknown, thr, err) ==
    LET r == compare_body(known, unknown, thr, err)
    IN  IF r.raised THEN Returned(ErrorResult) ELSE r

(***************************************************************************)
(* Face regions and create_face_encoding.                                  *)
(*                                                                         *)
(* A region is a rows x cols array with chan channels of type dtype; its   *)
(* channel-0 pixels follow a pattern of one or two intensities.  Regions   *)
(* of two intensities are 64 x 64, the size at which cv2.resize returns    *)
(* the pixels unchanged; a region of another size is uniform, and stays    *)
(* uniform under the interpolation of cv2.resize.                          *)
(*                                                                         *)
(* An entry of an encoding is [n, d], the number n / (d + 1e-7): a bucket  *)
(* count over the count of all samples.  np.zeros gives [0, 0].            *)
(***************************************************************************)
FaceSide == 64

HistBins == 256

HistKeep == 128

LbpBins == 16

LbpStep == 4

LbpMax == 8

ZeroLen == 256

LbpZeroLen == 16

Dims == {0, 1, 30, FaceSide}

Intensities == {50, 200}

Regions ==
    [ rows : Dims, cols : Dims, chan : {1, 3}, dtype : {"uint8", "float64"},
      kind : {"uniform"}, lo : Intensities, hi : {0} ]
    \cup
    { r \in [ rows : {FaceSide}, cols : {FaceSide}, chan : {1, 3},
              dtype : {"uint8", "float64"}, kind : {"split", "checker"},
              lo : Intensities, hi : Intensities ] : r.lo # r.hi }

\* channel 0 of pixel (i, j) of a region
Pixel(r, i, j) ==
    IF r.kind = "uniform" THEN r.lo
    ELSE IF r.kind = "split" THEN (IF i < r.rows \div 2 THEN r.lo ELSE r.hi)
    ELSE (IF (i + j) % 2 = 0 THEN r.lo ELSE r.hi)

PixelValues(r) == IF r.kind = "uniform" THEN {r.lo} ELSE {r.lo, r.hi}

\* cv2.resize(face_roi, (64, 64)) at (i, j)
ResizedAt(r, i, j) == Pixel(r, (i * r.rows) \div FaceSide, (j * r.cols) \div FaceSide)

Grid == (0..(FaceSide - 1)) \X (0..(FaceSide - 1))

Zero == [n |-> 0, d |-> 0]

Zeros(len) == [i \in 1..len |-> Zero]

\* cv2.calcHist([face_resized], [0], None, [256], [0, 256]): bucket b, 0-based
calcHist(r, b) ==
    IF b \in PixelValues(r)
    THEN Cardinality({ p \in Grid : ResizedAt(r, p[1], p[2]) = b })
    ELSE 0

RECURSIVE SumRange(_, _, _)
\* f[lo] + ... + f[hi]
SumRange(f, lo, hi) ==
    IF lo > hi THEN 0
    ELSE IF lo = hi THEN f[lo]
    ELSE LET mid == (lo + hi) \div 2
         IN  SumRange(f, lo, mid) + SumRange(f, mid + 1, hi)

\* Normalize altered: the counts are divided by nothing.
Normalize_counts(counts) ==
    [i \in 1..Len(counts) |-> [n |-> counts[i], d |-> 0]]

\* hist / (np.sum(hist) + 1e-7)
Normalize(counts) ==
    LET total == SumRange(counts, 1, Len(counts))
    IN  [i \in 1..Len(counts) |-> [n |-> counts[i], d |-> total]]

\* hist[:k]
Take(s, k) == SubSeq(s, 1, Min(k, Len(s)))

\* range(1, h - 1, 4)
SamplePoints == { i \in 1..(FaceSide - 2) : (i - 1) % LbpStep = 0 }

Neighbours(i, j) ==
    { <<i - 1, j - 1>>, <<i - 1, j>>, <<i - 1, j + 1>>, <<i, j + 1>>,
      <<i + 1, j + 1>>, <<i + 1, j>>, <<i + 1, j - 1>>, <<i, j - 1>> }

\* pattern = sum([1 if n >= center else 0 for n in neighbors])
Pattern(r, i, j) ==
    Cardinality({ q \in Neighbours(i, j) :
                    ResizedAt(r, q[1], q[2]) >= ResizedAt(r, i, j) })

\* np.histogram(features, bins=16, range=(0, 8)): the bin of a pattern,
\* 0-based; the last bin holds the right edge 8.
LbpBin(pat) == IF pat = LbpMax THEN LbpBins - 1 ELSE (pat * LbpBins) \div LbpMax

\* h, w = image.shape raises for an array of more than two dimensions.
LbpFails(r) == r.chan # 1

\* calculate_lbp_features on the resized region: h, w = image.shape raises
\* for an array of three channels, and the except clause returns np.zeros(16).
calculate_lbp_features(r) ==
    IF LbpFails(r)
    THEN Zeros(LbpZeroLen)
    ELSE Normalize([ b \in 1..LbpBins |->
            Cardinality({ p \in SamplePoints \X SamplePoints :
                            LbpBin(Pattern(r, p[1], p[2])) = b - 1 }) ])

\* cv2.resize raises on an empty array.
ResizeFails(r) == r.rows = 0 \/ r.cols = 0

\* cv2.calcHist takes 8-bit, 16-bit and float32 arrays only.
HistFails(r) == r.dtype # "uint8"

EncRaised == [raised |-> TRUE, value |-> <<>>]

\* The try block of create_face_encoding.  The simplified revision
\* concatenates hist[:128] and lbp_features, the enhanced revision
\* hist[:128] and lbp_features[:128].
encoding_body(r, rev) ==
    IF ResizeFails(r) \/ HistFails(r) THEN EncRaised
    ELSE LET hist == Normalize([b \in 1..HistBins |-> calcHist(r, b - 1)])
             lbp  == calculate_lbp_features(r)
         IN  Returned(Take(hist, HistKeep)
                      \o (IF rev = "enhanced" THEN Take(lbp, HistKeep) ELSE lbp))

\* create_face_encoding altered: no except clause.
create_face_encoding_noexcept(r, rev) == encoding_body(r, rev)

\* create_face_encoding: the try block, and np.zeros(256) on any exception.
create_face_encoding(r, rev) ==
    LET e == encoding_body(r, rev)
    IN  IF e.raised THEN Returned(Zeros(ZeroLen)) ELSE e

(***************************************************************************)
(* Uploaded images and detect_faces.                                       *)
(*                                                                         *)
(* An uploaded image is known by what OpenCV makes of its bytes: whether   *)
(* cv2.imread decodes them, and the windows face_cascade.detectMultiScale  *)
(* accepts in scan order, each with the number of eyes eye_cascade finds   *)
(* in it and the pixels of the window.                                     *)
(***************************************************************************)
Images == {"one_face", "two_faces", "no_face", "garbage"}

Window(x, y, side, eyes, kind, lo, hi) ==
    [ x |-> x, y |-> y, w |-> side, h |-> side, eyes |-> eyes,
      roi |-> [ rows |-> side, cols |-> side, chan |-> 1, dtype |-> "uint8",
                kind |-> kind, lo |-> lo, hi |-> hi ] ]

Windows(img) ==
    IF img = "one_face"
    THEN << Window(10, 20, 64, 2, "checker", 50, 200) >>
    ELSE IF img = "two_faces"
    THEN << Window(0, 0, 30, 0, "uniform", 50, 0),
            Window(40, 5, 64, 1, "split", 200, 50) >>
    ELSE << >>

\* File contents: an uploaded image, "empty" (opened for writing and not yet
\* written) or "absent".  cv2.imread returns None for all but a decodable
\* image.
Unreadable(content) == content \in {"absent", "empty", "garbage"}

\* What the detectors may return for an image: a window lies in the image
\* (x, y >= 0) and is a square of at least minSize = (30, 30).
Positions == { <<0, 0>>, <<5, 7>> }

Sides == { 30, FaceSide }

DetectedWindows ==
    { Window(pos[1], pos[2], side, eyes, "uniform", 50, 0) :
        pos \in Positions, side \in Sides, eyes \in 0..MaxEyes }

WindowLists == UNION { [1..n -> DetectedWindows] : n \in 0..MaxFaces }

\* face_roi of every window, and self.create_face_encoding(face_roi) of
\* each, per revision.
WindowRois ==
    { w.roi : w \in DetectedWindows }
    \cup UNION { { Windows(img)[i].roi : i \in 1..Len(Windows(img)) } :
                  img \in Images }

EncodingOf ==
    [ rev \in Revisions |->
        [ r \in WindowRois |-> create_face_encoding(r, rev).value ] ]

\* confidence_of altered: the sum is not capped at 1.0.
confidence_of_uncapped(eyes) == eyes * 4 + 6

\* min(1.0, len(eyes) * 0.4 + 0.6), in tenths
confidence_of(eyes) == Min(10, eyes * 4 + 6)

\* face_info altered: right and bottom are the left and top edges.
face_info_no_extent(i, win, rev) ==
    [ face_id |-> i - 1,
      encoding |-> EncodingOf[rev][win.roi],
      location |-> [ top |-> win.y, right |-> win.x,
                     bottom |-> win.y, left |-> win.x ],
      confidence |-> confidence_of(win.eyes),
      width |-> win.w,
      height |-> win.h ]

\* face_info: the record appended for window i of enumerate(faces)
face_info(i, win, rev) ==
    [ face_id |-> i - 1,
      encoding |-> EncodingOf[rev][win.roi],
      location |-> [ top |-> win.y, right |-> win.x + win.w,
                     bottom |-> win.y + win.h, left |-> win.x ],
      confidence |-> confidence_of(win.eyes),
      width |-> win.w,
      height |-> win.h ]

\* face_data altered: the windows are numbered from 1.
face_data_from_one(wins, rev) ==
    [ i \in 1..Len(wins) |-> face_info(i + 1, wins[i], rev) ]

\* face_data after the loop over enumerate(faces)
face_data(wins, rev) ==
    [ i \in 1..Len(wins) |-> face_info(i, wins[i], rev) ]

\* The face data of every image, per revision.
FaceData ==
    [ rev \in Revisions |->
        [ img \in Images |-> face_data(Windows(img), rev) ] ]

\* detect_faces once cv2.imread has returned: [] for None, else the face
\* data of the windows detectMultiScale accepted.
detect_in_image(decoded, wins, rev) ==
    IF ~decoded THEN Returned(<< >>) ELSE Returned(face_data(wins, rev))

\* detect_faces altered: an unreadable file raises.
detect_faces_decode_error(content, rev) ==
    IF Unreadable(content) THEN [raised |-> TRUE, value |-> << >>]
    ELSE Returned(FaceData[rev][content])

\* detect_faces on a file of the given content: [] when cv2.imread returns
\* None, else one dictionary per accepted window; its except clause turns
\* any exception into [].
detect_faces(content, rev) ==
    IF Unreadable(content) THEN Returned(<< >>)
    ELSE Returned(FaceData[rev][content])

NoAttributes == [kind |-> "empty", w |-> 0, h |-> 0]

\* get_default_attributes
DefaultAttributes == [kind |-> "default", w |-> 0, h |-> 0]

RECURSIVE Largest(_, _)
\* max(faces, key=lambda f: f[2] * f[3]): the first window of largest area
Largest(wins, best) ==
    IF wins = << >> THEN best
    ELSE Largest(Tail(wins),
                 IF wins[1].w * wins[1].h > best.w * best.h THEN wins[1] ELSE best)

\* analyze_face_attributes on a file of the given content
analyze_face_attributes(content) ==
    IF Unreadable(content) \/ Windows(content) = << >> THEN DefaultAttributes
    ELSE LET f == Largest(Tail(Windows(content)), Windows(content)[1])
         IN  [kind |-> "estimated", w |-> f.w, h |-> f.h]

\* result_of altered: the status is 'success' whatever faces holds.
result_of_always_success(fcs, attrs) ==
    [ faces_detected |-> Len(fcs), faces |-> fcs, attributes |-> attrs,
      status |-> "success", error |-> "none" ]

\* The dictionary process_uploaded_image returns from its try block.
result_of(fcs, attrs) ==
    [ faces_detected |-> Len(fcs), faces |-> fcs, attributes |-> attrs,
      status |-> IF fcs # << >> THEN "success" ELSE "no_faces_detected",
      error |-> "none" ]

\* The dictionary its except clause returns for the exception e.
ErrorOutcome(e) ==
    [ faces_detected |-> 0, faces |-> << >>, attributes |-> NoAttributes,
      status |-> "error", error |-> e ]

\* No call has returned yet.
NoOutcome ==
    [ faces_detected |-> 0, faces |-> << >>, attributes |-> NoAttributes,
      status |-> "none", error |-> "none" ]

\* process_uploaded_image run by itself on the bytes img: what the file
\* holds is what was written.
process_alone(img, rev) ==
    LET fcs == detect_faces(img, rev)
    IN  IF fcs.raised THEN ErrorOutcome("DecodeError")
        ELSE result_of(fcs.value,
                       IF fcs.value # << >> THEN analyze_face_attributes(img)
                       ELSE NoAttributes)

\* upload_and_analyze after process_uploaded_image: 500 on status 'error',
\* 400 'No faces detected' on zero faces, else the analysis.
route_response(res) ==
    IF res.status = "error" THEN [code |-> 500, body |-> "error"]
    ELSE IF res.faces_detected = 0 THEN [code |-> 400, body |-> "no_faces_detected"]
    ELSE [code |-> 200, body |-> "analysis"]

(***************************************************************************)
(* The requests: each runs process_uploaded_image on the shared engine.    *)
(***************************************************************************)
Requests == 1..NumRequests

FixedPath == "/tmp/uploaded_image.jpg"

\* The names tempfile.NamedTemporaryFile may pick: one per request in flight.
TempNames == { <<"tmp", n>> : n \in Requests }

Paths == {<<FixedPath, 0>>} \cup TempNames

NoResponse == [code |-> 0, body |-> "none"]

\* The request has been through self.detect_faces(temp_path).
Detected(p) == pc[p] \in {"analyze", "exists", "remove", "return", "route", "done"}

\* faces of a request: the list detect_faces made of the file it read.
faces(p) ==
    IF Detected(p) THEN detect_faces(seen[p], revision).value ELSE << >>

\* The dictionary process_uploaded_image returned to a request: the one of
\* its try block, or the one of its except clause for the exception raised.
result(p) ==
    IF ended[p] = "running" THEN NoOutcome
    ELSE IF ended[p] = "returned" THEN result_of(faces(p), attributes[p])
    ELSE ErrorOutcome(ended[p])

(***************************************************************************)
(* The API: Firebase tokens, the police_users collection, require_auth.    *)
(*                                                                         *)
(* src.firebase.auth exists in two revisions: in the first require_auth    *)
(* takes the view function, in the second it takes a role and returns the  *)
(* decorator.  The routes apply it as @require_auth.                       *)
(***************************************************************************)
AuthRevisions == {"plain", "with_role"}

UIDs == {"u1", "u2"}

Roles == {"police_officer", "admin"}

\* auth.verify_id_token: the tokens it accepts and what they decode to; it
\* raises for every other string.
ValidTokens == {"tok_u1", "tok_u2"}

Tokens == ValidTokens \cup {"expired"}

NoToken == [ok |-> FALSE, uid |-> "none", role |-> "none"]

DecodedOf(tok) ==
    [ok |-> TRUE, uid |-> IF tok = "tok_u1" THEN "u1" ELSE "u2",
     role |-> IF tok = "tok_u2" THEN "admin" ELSE "none"]

\* A string as the list of its parts: an Authorization header is <<>>
\* (empty), <<tok>>, <<"Bearer ", tok>>, ...
verify_token(s) ==
    IF Len(s) = 1 /\ s[1] \in ValidTokens THEN DecodedOf(s[1]) ELSE NoToken

HeaderValues ==
    { << >>, <<"Bearer ">>, <<"bearer ", "tok_u1">>, <<"Bearer ", "Bearer ", "tok_u1">> }
    \cup { <<t>> : t \in Tokens } \cup { <<"Bearer ", t>> : t \in Tokens }

\* request.headers.get('Authorization'): None when the header is absent
Headers == [present : {FALSE}, value : {<< >>}] \cup [present : {TRUE}, value : HeaderValues]

\* token[7:] if token.startswith('Bearer ')
strip_bearer(s) == IF Len(s) >= 1 /\ s[1] = "Bearer " THEN Tail(s) ELSE s

\* How a route applies require_auth: "bare" is @require_auth, as the routes
\* do; "called" is @require_auth(role), as the second revision expects.
Usages ==
    [rev : {"plain"}, form : {"bare"}, role : {"none"}]
    \cup [rev : {"with_role"}, form : {"bare"}, role : {"none"}]
    \cup [rev : {"with_role"}, form : {"called"}, role : {"none", "admin"}]

Rejected(code, body) ==
    [passed |-> FALSE, code |-> code, body |-> body, current_user |-> NoToken]

\* decorated_function up to the call of f: whether f is called, with which
\* request.current_user, and the answer when it is not.
decorated_function(use, header) ==
    IF ~header.present \/ header.value = << >>
    THEN Rejected(401, "no_token")
    ELSE LET decoded == verify_token(strip_bearer(header.value))
         IN  IF ~decoded.ok THEN Rejected(401, "invalid_token")
             ELSE IF use.rev = "with_role" /\ use.role # "none"
                     /\ decoded.role # use.role
             THEN Rejected(403, "access_denied")
             ELSE [passed |-> TRUE, code |-> 0, body |-> "none",
                   current_user |-> decoded]

\* The view function a route registers.  @require_auth on the second
\* revision binds the view function to role and registers decorator as the
\* view; Flask calls it without f, which raises TypeError: the request is
\* answered 500 and neither the checks nor the handler run.
require_auth(use, header) ==
    IF use.rev = "with_role" /\ use.form = "bare"
    THEN Rejected(500, "TypeError")
    ELSE decorated_function(use, header)

\* The police_users collection: uid -> document, or no document.  NoStore
\* is self.db = None.
NoDoc == [exists |-> FALSE, role |-> "none", active |-> FALSE, last_login |-> 0]

Docs == {NoDoc} \cup [exists : {TRUE}, role : Roles, active : BOOLEAN, last_login : {0}]

\* get_user_profile: the document, None without a store or a document
get_user_profile(st, uid) ==
    IF st.connected /\ st.docs[uid].exists THEN st.docs[uid] ELSE NoDoc

NoAnswer == [handler_ran |-> FALSE, code |-> 0, body |-> "none",
             current_user |-> NoToken, calls |-> << >>]

\* system_stats_handler altered: any profile gets the statistics.
system_stats_handler_any_role(st, current_user) ==
    LET user_profile == get_user_profile(st, current_user.uid)
    IN  IF ~user_profile.exists
        THEN [code |-> 403, body |-> "admin_required"]
        ELSE [code |-> 200, body |-> "stats"]

\* get_system_stats, the handler: 403 unless the profile of the caller has
\* the role admin.
system_stats_handler(st, current_user) ==
    LET user_profile == get_user_profile(st, current_user.uid)
    IN  IF ~user_profile.exists \/ user_profile.role # "admin"
        THEN [code |-> 403, body |-> "admin_required"]
        ELSE [code |-> 200, body |-> "stats"]

\* GET /system-stats: require_auth, then the handler.
system_stats_route(use, st, header) ==
    LET a == require_auth(use, header)
    IN  IF ~a.passed
        THEN [handler_ran |-> FALSE, code |-> a.code, body |-> a.body,
              current_user |-> NoToken, calls |-> << >>]
        ELSE LET r == system_stats_handler(st, a.current_user)
             IN  [handler_ran |-> TRUE, code |-> r.code, body |-> r.body,
                  current_user |-> a.current_user,
                  calls |-> <<"get_user_profile">>]

\* update_last_login: writes last_login = utcnow() (1; 0 is the value before
\* the request) when there is a store; updating a missing document raises,
\* which the method swallows.
update_last_login(st, uid) ==
    IF st.connected /\ st.docs[uid].exists
    THEN [st EXCEPT !.docs[uid].last_login = 1]
    ELSE st

\* request.get_json() of POST /login: None (JSON null, or no JSON), or an
\* object with or without the key id_token.
TokenStrings ==
    { << >>, <<"Bearer ", "tok_u1">> } \cup { <<t>> : t \in Tokens }

LoginBodies ==
    [kind : {"null"}, has_id_token : {FALSE}, id_token : {<< >>}]
    \cup [kind : {"object"}, has_id_token : {FALSE}, id_token : {<< >>}]
    \cup [kind : {"object"}, has_id_token : {TRUE}, id_token : TokenStrings]

LoginAnswer(code, body, calls, st) ==
    [handler_ran |-> TRUE, code |-> code, body |-> body,
     current_user |-> NoToken, calls |-> calls, store |-> st]

\* login altered: the last login is written before the profile is checked.
login_update_first(st, data) ==
    IF data.kind = "null"
    THEN LoginAnswer(500, "login_failed", << >>, st)
    ELSE IF ~data.has_id_token
    THEN LoginAnswer(400, "id_token_required", << >>, st)
    ELSE LET decoded_token == verify_token(data.id_token)
             uid == decoded_token.uid
         IN  IF ~decoded_token.ok
             THEN LoginAnswer(401, "invalid_token", <<"verify_token">>, st)
             ELSE LET st1 == update_last_login(st, uid)
                      user_profile == get_user_profile(st1, uid)
                  IN  IF ~user_profile.exists
                      THEN LoginAnswer(404, "profile_not_found",
                               <<"verify_token", "update_last_login", "get_user_profile">>, st1)
                      ELSE IF ~user_profile.active
                      THEN LoginAnswer(403, "deactivated",
                               <<"verify_token", "update_last_login", "get_user_profile">>, st1)
                      ELSE LoginAnswer(200, "user",
                               <<"verify_token", "update_last_login", "get_user_profile">>, st1)

\* POST /login: the answer, the FirebaseAuth methods called in order, and
\* the store afterwards.  'id_token' not in None raises TypeError, which
\* the handler's except turns into 500.
login(st, data) ==
    IF data.kind = "null"
    THEN LoginAnswer(500, "login_failed", << >>, st)
    ELSE IF ~data.has_id_token
    THEN LoginAnswer(400, "id_token_required", << >>, st)
    ELSE LET decoded_token == verify_token(data.id_token)
             uid == decoded_token.uid
             user_profile == get_user_profile(st, uid)
         IN  IF ~decoded_token.ok
             THEN LoginAnswer(401, "invalid_token", <<"verify_token">>, st)
             ELSE IF ~user_profile.exists
             THEN LoginAnswer(404, "profile_not_found",
                      <<"verify_token", "get_user_profile">>, st)
             ELSE IF ~user_profile.active
             THEN LoginAnswer(403, "deactivated",
                      <<"verify_token", "get_user_profile">>, st)
             ELSE LoginAnswer(200, "user",
                      <<"verify_token", "get_user_profile", "update_last_login">>,
                      update_last_login(st, uid))

(***************************************************************************)
(* Strings are sequences of characters.                                    *)
(***************************************************************************)
UpperLetters ==
    <<"A", "B", "C", "D", "E", "F", "G", "H", "I", "J", "K", "L", "M",
      "N", "O", "P", "Q", "R", "S", "T", "U", "V", "W", "X", "Y", "Z">>

LowerLetters ==
    <<"a", "b", "c", "d", "e", "f", "g", "h", "i", "j", "k", "l", "m",
      "n", "o", "p", "q", "r", "s", "t", "u", "v", "w", "x", "y", "z">>

IsUpper(c) == \E i \in DOMAIN UpperLetters : UpperLetters[i] = c

IsLower(c) == \E i \in DOMAIN LowerLetters : LowerLetters[i] = c

IsLetter(c) == IsUpper(c) \/ IsLower(c)

IsDigit(c) == c \in {"0", "1", "2", "3", "4", "5", "6", "7", "8", "9"}

IsSpace(c) == c \in {" ", "\t", "\n"}

\* the class [!@#$%^&*(),.?":{}|<>] of validate_password
IsSpecial(c) ==
    c \in {"!", "@", "#", "$", "%", "^", "&", "*", "(", ")", ",", ".", "?",
           "\"", ":", "{", "}", "|", "<", ">"}

\* str.lower()
lower(s) ==
    [k \in DOMAIN s |->
        IF IsUpper(s[k])
        THEN LowerLetters[CHOOSE i \in DOMAIN UpperLetters : UpperLetters[i] = s[k]]
        ELSE s[k]]

\* str.strip()
strip(s) ==
    LET kept == { k \in DOMAIN s : ~IsSpace(s[k]) }
    IN  IF kept = {} THEN << >>
        ELSE LET first == CHOOSE k \in kept : \A m \in kept : k <= m
                 last == CHOOSE k \in kept : \A m \in kept : m <= k
             IN  SubSeq(s, first, last)

\* ^[a-zA-Z0-9._%+-]+@[a-zA-Z0-9.-]+\.[a-zA-Z]{2,} up to the end of s
MatchesEmailPattern(s) ==
    \E i \in 2..Len(s) : \E j \in (i + 2)..(Len(s) - 2) :
        /\ \A k \in 1..(i - 1) :
               IsLetter(s[k]) \/ IsDigit(s[k]) \/ s[k] \in {".", "_", "%", "+", "-"}
        /\ s[i] = "@"
        /\ \A k \in (i + 1)..(j - 1) :
               IsLetter(s[k]) \/ IsDigit(s[k]) \/ s[k] \in {".", "-"}
        /\ s[j] = "."
        /\ \A k \in (j + 1)..Len(s) : IsLetter(s[k])

\* validate_email: re.match with $, which also matches before a final newline
validate_email(s) ==
    \/ MatchesEmailPattern(s)
    \/ /\ Len(s) >= 1
       /\ s[Len(s)] = "\n"
       /\ MatchesEmailPattern(SubSeq(s, 1, Len(s) - 1))

MinPasswordLen == 8

Verdict(ok, message) == [ok |-> ok, message |-> message]

\* validate_password altered: the digit is looked for before the lowercase
\* letter.
validate_password_pair_digit_first(s) ==
    IF Len(s) < MinPasswordLen THEN Verdict(FALSE, "length")
    ELSE IF ~\E k \in DOMAIN s : IsUpper(s[k]) THEN Verdict(FALSE, "uppercase")
    ELSE IF ~\E k \in DOMAIN s : IsDigit(s[k]) THEN Verdict(FALSE, "digit")
    ELSE IF ~\E k \in DOMAIN s : IsLower(s[k]) THEN Verdict(FALSE, "lowercase")
    ELSE IF ~\E k \in DOMAIN s : IsSpecial(s[k]) THEN Verdict(FALSE, "special")
    ELSE Verdict(TRUE, "valid")

\* validate_password: the pair (is_valid, message) it returns; the message
\* is named by the rule it speaks of.
validate_password_pair(s) ==
    IF Len(s) < MinPasswordLen THEN Verdict(FALSE, "length")
    ELSE IF ~\E k \in DOMAIN s : IsUpper(s[k]) THEN Verdict(FALSE, "uppercase")
    ELSE IF ~\E k \in DOMAIN s : IsLower(s[k]) THEN Verdict(FALSE, "lowercase")
    ELSE IF ~\E k \in DOMAIN s : IsDigit(s[k]) THEN Verdict(FALSE, "digit")
    ELSE IF ~\E k \in DOMAIN s : IsSpecial(s[k]) THEN Verdict(FALSE, "special")
    ELSE Verdict(TRUE, "valid")

\* validate_password: the first element of the pair it returns
validate_password(s) == validate_password_pair(s).ok

\* The passwords validate_password is given: up to MaxTail characters, one
\* of each class and one of no class, alone or after four characters of no
\* class.
PasswordAlphabet == {"A", "b", "1", "!", "_"}

PasswordPads == { << >>, <<"_", "_", "_", "_">> }

PasswordTails == UNION { [1..n -> PasswordAlphabet] : n \in 0..MaxTail }

Passwords == { pad \o t : pad \in PasswordPads, t \in PasswordTails }

NoPassword == [called |-> FALSE, password |-> << >>]

NoVerdict == Verdict(FALSE, "none")

\* A store: whether there is a Firestore client (self.db), the police_users
\* documents, and the e-mail addresses that have a Firebase Auth account.
Stores == [connected : BOOLEAN, docs : [UIDs -> Docs], accounts : {{}}]

NoStore == [connected |-> FALSE, docs |-> [u \in UIDs |-> NoDoc], accounts |-> {}]

NoRequest == [called |-> FALSE, route |-> "none"]

(***************************************************************************)
(* Initial states and steps.                                               *)
(***************************************************************************)
(***************************************************************************)
(* POST /register.                                                         *)
(***************************************************************************)
\* A value of the JSON body: a key that is absent, a string, or a number.
Absent == [present |-> FALSE, type |-> "none", s |-> << >>]

Str(s) == [present |-> TRUE, type |-> "str", s |-> s]

Num == [present |-> TRUE, type |-> "num", s |-> << >>]

\* not data[field]: the empty string is false, a (non-zero) number is not
Given(v) == v.present /\ (v.type = "num" \/ v.s # << >>)

EmailPlain == <<"a", "@", "b", ".", "c", "o">>

EmailValues ==
    { Absent, Str(<< >>), Num, Str(EmailPlain),
      Str(<<"A", "@", "b", ".", "C", "o">>),
      Str(<<" ", "a", "@", "b", ".", "c", "o", " ">>),
      Str(<<"a", "@", "b", ".", "c">>),
      Str(<<"a", " ", "b", "@", "c", ".", "c", "o">>) }

PasswordValues ==
    { Absent, Str(<< >>), Num,
      Str(<<"A", "b", "c", "d", "e", "f", "1", "!">>),
      Str(<<"A", "b", "c", "d", "e", "1", "!">>),
      Str(<<"a", "b", "c", "d", "e", "f", "1", "!">>),
      Str(<<"A", "B", "C", "D", "E", "F", "1", "!">>),
      Str(<<"A", "b", "c", "d", "e", "f", "g", "!">>),
      Str(<<"A", "b", "c", "d", "e", "f", "g", "1">>) }

CountryValues ==
    { Absent, Num,
      Str(<<"b", "u", "r", "u", "n", "d", "i">>),
      Str(<<"R", "w", "a", "n", "d", "a">>),
      Str(<<" ", "r", "w", "a", "n", "d", "a">>),
      Str(<<"k", "e", "n", "y", "a">>) }

allowed_countries ==
    { <<"b", "u", "r", "u", "n", "d", "i">>, <<"r", "w", "a", "n", "d", "a">> }

RegisterBodies ==
    [kind : {"null"}, email : {Absent}, password : {Absent},
     badge_number : {Absent}, department : {Absent}, rank : {Absent},
     country : {Absent}]
    \cup [kind : {"object"}, email : EmailValues, password : PasswordValues,
          badge_number : {Absent, Str(<< >>), Str(<<"7">>)},
          department : {Absent, Str(<<"x">>)},
          rank : {Str(<< >>), Str(<<"x">>)},
          country : CountryValues]

\* the uid auth.create_user gives the new account
NewUid == "u2"

NewDoc == [exists |-> TRUE, role |-> "police_officer", active |-> TRUE,
           last_login |-> 0]

\* create_police_user: auth.create_user raises when the address has an
\* account; the document is written when there is a Firestore client, and
\* that write can raise (firestore_ok false) after the account was made.
create_police_user(st, email, firestore_ok) ==
    IF email \in st.accounts
    THEN [success |-> FALSE, store |-> st]
    ELSE LET st1 == [st EXCEPT !.accounts = @ \cup {email}]
         IN  IF ~st.connected THEN [success |-> TRUE, store |-> st1]
             ELSE IF ~firestore_ok THEN [success |-> FALSE, store |-> st1]
             ELSE [success |-> TRUE,
                   store |-> [st1 EXCEPT !.docs[NewUid] = NewDoc]]

RegisterAnswer(code, body, calls, st) ==
    [code |-> code, body |-> body, calls |-> calls, store |-> st]

\* register altered: the country is not checked.
register_any_country(st, data, firestore_ok) ==
    IF data.kind = "null"
    THEN RegisterAnswer(500, "registration_failed", << >>, st)
    ELSE IF ~Given(data.email) THEN RegisterAnswer(400, "email_required", << >>, st)
    ELSE IF ~Given(data.password) THEN RegisterAnswer(400, "password_required", << >>, st)
    ELSE IF ~Given(data.badge_number) THEN RegisterAnswer(400, "badge_number_required", << >>, st)
    ELSE IF ~Given(data.department) THEN RegisterAnswer(400, "department_required", << >>, st)
    ELSE IF ~Given(data.rank) THEN RegisterAnswer(400, "rank_required", << >>, st)
    ELSE IF ~Given(data.country) THEN RegisterAnswer(400, "country_required", << >>, st)
    ELSE IF data.email.type # "str"
    THEN RegisterAnswer(500, "registration_failed", << >>, st)
    ELSE LET email == strip(lower(data.email.s))
         IN  IF ~validate_email(email)
             THEN RegisterAnswer(400, "invalid_email", << >>, st)
             ELSE IF data.password.type # "str"
             THEN RegisterAnswer(500, "registration_failed", << >>, st)
             ELSE IF ~validate_password(data.password.s)
             THEN RegisterAnswer(400, "weak_password", << >>, st)
             ELSE LET created == create_police_user(st, email, firestore_ok)
                  IN  IF created.success
                      THEN RegisterAnswer(201, "registered",
                               <<"create_police_user">>, created.store)
                      ELSE RegisterAnswer(400, "create_error",
                               <<"create_police_user">>, created.store)

\* register: the answer, whether create_police_user was called, and the
\* store afterwards.  Every raise inside the try block ('field not in None',
\* .lower() or len() of a number) is answered 500 by the except clause.
register(st, data, firestore_ok) ==
    IF data.kind = "null"
    THEN RegisterAnswer(500, "registration_failed", << >>, st)
    ELSE IF ~Given(data.email) THEN RegisterAnswer(400, "email_required", << >>, st)
    ELSE IF ~Given(data.password) THEN RegisterAnswer(400, "password_required", << >>, st)
    ELSE IF ~Given(data.badge_number) THEN RegisterAnswer(400, "badge_number_required", << >>, st)
    ELSE IF ~Given(data.department) THEN RegisterAnswer(400, "department_required", << >>, st)
    ELSE IF ~Given(data.rank) THEN RegisterAnswer(400, "rank_required", << >>, st)
    ELSE IF ~Given(data.country) THEN RegisterAnswer(400, "country_required", << >>, st)
    ELSE IF data.email.type # "str"
    THEN RegisterAnswer(500, "registration_failed", << >>, st)
    ELSE LET email == strip(lower(data.email.s))
         IN  IF ~validate_email(email)
             THEN RegisterAnswer(400, "invalid_email", << >>, st)
             ELSE IF data.password.type # "str"
             THEN RegisterAnswer(500, "registration_failed", << >>, st)
             ELSE IF ~validate_password(data.password.s)
             THEN RegisterAnswer(400, "weak_password", << >>, st)
             ELSE IF data.country.type # "str"
             THEN RegisterAnswer(500, "registration_failed", << >>, st)
             ELSE IF lower(data.country.s) \notin allowed_countries
             THEN RegisterAnswer(400, "country_not_allowed", << >>, st)
             ELSE LET created == create_police_user(st, email, firestore_ok)
                  IN  IF created.success
                      THEN RegisterAnswer(201, "registered",
                               <<"create_police_user">>, created.store)
                      ELSE RegisterAnswer(400, "create_error",
                               <<"create_police_user">>, created.store)

\* The stores a registration can meet: with or without a Firestore client,
\* with or without an account for a@b.co (uid u1).
RegisterStores ==
    { [connected |-> c,
       docs |-> [u \in UIDs |-> IF u = "u1" /\ c /\ acc # {} THEN NewDoc ELSE NoDoc],
       accounts |-> acc] : c \in BOOLEAN, acc \in {{}, {EmailPlain}} }

(***************************************************************************)
(* POST /upload-and-analyze and FirebaseAuth.log_search_activity.          *)
(***************************************************************************)
ALLOWED_EXTENSIONS ==
    { <<"p", "n", "g">>, <<"j", "p", "g">>, <<"j", "p", "e", "g">>,
      <<"g", "i", "f">> }

\* '.' in filename and filename.rsplit('.', 1)[1].lower() in ALLOWED_EXTENSIONS
allowed_file(filename) ==
    LET dots == { k \in DOMAIN filename : filename[k] = "." }
    IN  /\ dots # {}
        /\ LET last == CHOOSE k \in dots : \A m \in dots : m <= k
           IN  lower(SubSeq(filename, last + 1, Len(filename)))
                   \in ALLOWED_EXTENSIONS

\* request.files: no part named image, or one with its filename.
Filenames ==
    { << >>,
      <<"a", ".", "j", "p", "g">>,
      <<"a", ".", "J", "P", "G">>,
      <<"a", ".", "g", "i", "f">>,
      <<"a", ".", "e", "x", "e">>,
      <<"a", "j", "p", "g">>,
      <<"a", ".", "j", "p", "g", ".", "e", "x", "e">>,
      <<"a", ".", "e", "x", "e", ".", "p", "n", "g">> }

Files == [present : {FALSE}, filename : {<< >>}]
         \cup [present : {TRUE}, filename : Filenames]

\* log_search_activity run by itself: with a Firestore client one record is
\* added to search_history, then search_count of the user's document is
\* incremented; update raises NotFound when there is no such document, and
\* the method swallows it.
log_added(st, h, uid) ==
    IF st.connected THEN [h EXCEPT ![uid] = @ + 1] ELSE h

log_counted(st, c, uid) ==
    IF st.connected /\ st.docs[uid].exists THEN [c EXCEPT ![uid] = @ + 1] ELSE c

AnalyzeAnswer(code, body, calls) == [code |-> code, body |-> body, calls |-> calls]

\* upload_and_analyze altered: the file name is not examined, as in
\* analyze_face of main_simple.
upload_handler_any_name(file, analysis) ==
    IF ~file.present THEN AnalyzeAnswer(400, "no_image", << >>)
    ELSE IF route_response(analysis).code # 200
    THEN AnalyzeAnswer(route_response(analysis).code,
                       route_response(analysis).body, << >>)
    ELSE AnalyzeAnswer(200, "analysis",
             <<"upload_image_to_storage", "comprehensive_search",
               "log_search_activity">>)

\* upload_and_analyze, the handler: the answer and the calls it makes to
\* the storage, the search and the log, in order.  All three swallow their
\* own exceptions.
upload_handler(file, analysis) ==
    IF ~file.present THEN AnalyzeAnswer(400, "no_image", << >>)
    ELSE IF file.filename = << >> THEN AnalyzeAnswer(400, "no_file_selected", << >>)
    ELSE IF ~allowed_file(file.filename)
    THEN AnalyzeAnswer(400, "invalid_file_type", << >>)
    ELSE IF route_response(analysis).code # 200
    THEN AnalyzeAnswer(route_response(analysis).code,
                       route_response(analysis).body, << >>)
    ELSE AnalyzeAnswer(200, "analysis",
             <<"upload_image_to_storage", "comprehensive_search",
               "log_search_activity">>)

\* What face_engine.process_uploaded_image reports to the route: the
\* outcome for the image, or the outcome of its except clause.
engine_report(img, rev, engine_raises) ==
    IF engine_raises THEN ErrorOutcome("OSError") ELSE process_alone(img, rev)

\* POST /upload-and-analyze: require_auth, then the handler.
upload_and_analyze(use, header, file, analysis) ==
    LET a == require_auth(use, header)
    IN  IF ~a.passed
        THEN [handler_ran |-> FALSE, code |-> a.code, body |-> a.body,
              current_user |-> NoToken, calls |-> << >>]
        ELSE LET r == upload_handler(file, analysis)
             IN  [handler_ran |-> TRUE, code |-> r.code, body |-> r.body,
                  current_user |-> a.current_user, calls |-> r.calls]

AnalyzeHeaders ==
    { [present |-> FALSE, value |-> << >>],
      [present |-> TRUE, value |-> <<"Bearer ", "tok_u1">>],
      [present |-> TRUE, value |-> <<"Bearer ", "expired">>] }

InitNoPasswords ==
    /\ pwIn = NoPassword
    /\ pwOut = NoVerdict

InitNoLogs ==
    /\ logPc = [p \in Requests |-> "idle"]
    /\ logUid = [p \in Requests |-> "u1"]
    /\ history = [u \in UIDs |-> 0]
    /\ search_count = [u \in UIDs |-> 0]

InitNoWeb ==
    /\ authRevision = "plain"
    /\ store = NoStore
    /\ webIn = NoRequest
    /\ webOut = NoAnswer

NoRegion ==
    [ called |-> FALSE,
      region |-> [ rows |-> 1, cols |-> 1, chan |-> 1, dtype |-> "uint8",
                   kind |-> "uniform", lo |-> 50, hi |-> 0 ] ]

NoCompare ==
    [called |-> FALSE, known |-> Numeric(<<>>), unknown |-> Numeric(<<>>)]

InitEngine ==
    /\ revision \in Revisions
    /\ env \in EnvValues
    /\ similarity_threshold = engine_init(revision, env)
    /\ fpErr \in {-1, 0, 1}

InitDefaultEngine ==
    /\ revision \in Revisions
    /\ env = <<>>
    /\ similarity_threshold = engine_init(revision, env)
    /\ fpErr = 0

NoDetect == [called |-> FALSE, decoded |-> FALSE, wins |-> << >>]

InitNoCalls ==
    /\ detIn = NoDetect
    /\ detOut = Returned(<< >>)
    /\ cmpIn = NoCompare
    /\ cmpOut = Returned(ErrorResult)
    /\ encIn = NoRegion
    /\ encOut = EncRaised

InitNoUploads ==
    /\ pc = [p \in Requests |-> "idle"]
    /\ image = [p \in Requests |-> "no_face"]
    /\ temp_path = [p \in Requests |-> <<FixedPath, 0>>]
    /\ linked = [p \in Requests |-> FALSE]
    /\ fs = [f \in Paths |-> "absent"]
    /\ seen = [p \in Requests |-> "absent"]
    /\ attributes = [p \in Requests |-> NoAttributes]
    /\ ended = [p \in Requests |-> "running"]
    /\ response = [p \in Requests |-> NoResponse]

\* The two encodings of a request to /compare-faces, not yet compared.
InitCompare ==
    /\ InitEngine
    /\ cmpIn \in [called : {FALSE}, known : Encodings, unknown : Encodings]
    /\ cmpOut = Returned(ErrorResult)
    /\ encIn = NoRegion
    /\ encOut = EncRaised
    /\ detIn = NoDetect
    /\ detOut = Returned(<< >>)
    /\ InitNoUploads
    /\ InitNoPasswords
    /\ InitNoLogs
    /\ InitNoWeb

\* The request reaches face_engine.compare_faces.
CompareFaces ==
    /\ ~cmpIn.called
    /\ cmpIn' = [cmpIn EXCEPT !.called = TRUE]
    /\ cmpOut' = compare_faces(cmpIn.known, cmpIn.unknown, similarity_threshold, fpErr)
    /\ UNCHANGED <<engineVars, pwVars, logVars, detVars, webVars, encIn, encOut, uploadVars>>

NextCompare == CompareFaces

SpecCompare == InitCompare /\ [][NextCompare]_vars

\* A face region handed to create_face_encoding, not yet encoded.
InitEncode ==
    /\ InitDefaultEngine
    /\ cmpIn = NoCompare
    /\ cmpOut = Returned(ErrorResult)
    /\ encIn \in [called : {FALSE}, region : Regions]
    /\ encOut = EncRaised
    /\ detIn = NoDetect
    /\ detOut = Returned(<< >>)
    /\ InitNoUploads
    /\ InitNoPasswords
    /\ InitNoLogs
    /\ InitNoWeb

CreateFaceEncoding ==
    /\ ~encIn.called
    /\ encIn' = [encIn EXCEPT !.called = TRUE]
    /\ encOut' = create_face_encoding(encIn.region, revision)
    /\ UNCHANGED <<engineVars, pwVars, logVars, detVars, webVars, cmpIn, cmpOut, uploadVars>>

NextEncode == CreateFaceEncoding

SpecEncode == InitEncode /\ [][NextEncode]_vars

\* An image file handed to detect_faces, not yet read.
InitDetect ==
    /\ InitDefaultEngine
    /\ cmpIn = NoCompare
    /\ cmpOut = Returned(ErrorResult)
    /\ encIn = NoRegion
    /\ encOut = EncRaised
    /\ detIn \in [called : {FALSE}, decoded : BOOLEAN, wins : WindowLists]
    /\ detOut = Returned(<< >>)
    /\ InitNoUploads
    /\ InitNoPasswords
    /\ InitNoLogs
    /\ InitNoWeb

DetectFaces ==
    /\ ~detIn.called
    /\ detIn' = [detIn EXCEPT !.called = TRUE]
    /\ detOut' = detect_in_image(detIn.decoded, detIn.wins, revision)
    /\ UNCHANGED <<engineVars, pwVars, logVars, callVars, uploadVars, webVars>>

NextDetect == DetectFaces

SpecDetect == InitDetect /\ [][NextDetect]_vars

InitNoEngineCalls ==
    /\ InitDefaultEngine
    /\ InitNoCalls
    /\ InitNoUploads
    /\ InitNoPasswords
    /\ InitNoLogs

\* A request to GET /system-stats, not yet served.
InitStats ==
    /\ InitNoEngineCalls
    /\ store \in Stores
    /\ webIn \in [called : {FALSE}, route : {"system-stats"}, use : Usages,
                   header : Headers]
    /\ authRevision = webIn.use.rev
    /\ webOut = NoAnswer

SystemStats ==
    /\ ~webIn.called
    /\ webIn.route = "system-stats"
    /\ webIn' = [webIn EXCEPT !.called = TRUE]
    /\ webOut' = system_stats_route(webIn.use, store, webIn.header)
    /\ UNCHANGED <<engineVars, pwVars, logVars, callVars, detVars, uploadVars, authRevision, store>>

\* A request to POST /login, not yet served.
InitLogin ==
    /\ InitNoEngineCalls
    /\ authRevision \in AuthRevisions
    /\ store \in Stores
    /\ webIn \in [called : {FALSE}, route : {"login"}, body : LoginBodies]
    /\ webOut = NoAnswer

Login ==
    /\ ~webIn.called
    /\ webIn.route = "login"
    /\ LET r == login(store, webIn.body)
       IN  /\ webOut' = [handler_ran |-> TRUE, code |-> r.code, body |-> r.body,
                         current_user |-> NoToken, calls |-> r.calls]
           /\ store' = r.store
    /\ webIn' = [webIn EXCEPT !.called = TRUE]
    /\ UNCHANGED <<engineVars, pwVars, logVars, callVars, detVars, uploadVars, authRevision>>

NextLogin == Login

SpecLogin == InitLogin /\ [][NextLogin]_vars

\* A request to POST /register, not yet served.
InitRegister ==
    /\ InitNoEngineCalls
    /\ authRevision \in AuthRevisions
    /\ store \in RegisterStores
    /\ webIn \in [called : {FALSE}, route : {"register"}, body : RegisterBodies,
                   firestore_ok : BOOLEAN, before : RegisterStores]
    /\ webIn.before = store
    /\ store.connected \/ webIn.firestore_ok
    /\ webOut = NoAnswer

Register ==
    /\ ~webIn.called
    /\ webIn.route = "register"
    /\ LET r == register(store, webIn.body, webIn.firestore_ok)
       IN  /\ webOut' = [handler_ran |-> TRUE, code |-> r.code, body |-> r.body,
                         current_user |-> NoToken, calls |-> r.calls]
           /\ store' = r.store
    /\ webIn' = [webIn EXCEPT !.called = TRUE]
    /\ UNCHANGED <<engineVars, pwVars, logVars, callVars, detVars, uploadVars, authRevision>>

NextRegister == Register

SpecRegister == InitRegister /\ [][NextRegister]_vars

\* A password handed to validate_password, not yet examined.
InitPassword ==
    /\ InitDefaultEngine
    /\ InitNoCalls
    /\ InitNoUploads
    /\ InitNoWeb
    /\ InitNoLogs
    /\ pwIn \in [called : {FALSE}, password : Passwords]
    /\ pwOut = NoVerdict

ValidatePassword ==
    /\ ~pwIn.called
    /\ pwIn' = [pwIn EXCEPT !.called = TRUE]
    /\ pwOut' = validate_password_pair(pwIn.password)
    /\ UNCHANGED <<engineVars, callVars, detVars, uploadVars, webVars, logVars>>

NextPassword == ValidatePassword

SpecPassword == InitPassword /\ [][NextPassword]_vars

\* A request to POST /upload-and-analyze, not yet served.
InitAnalyze ==
    /\ InitDefaultEngine
    /\ InitNoCalls
    /\ InitNoUploads
    /\ InitNoPasswords
    /\ InitNoLogs
    /\ store \in RegisterStores
    /\ webIn \in [called : {FALSE}, route : {"upload-and-analyze"}, use : Usages,
                   header : AnalyzeHeaders, file : Files, image : Images,
                   engine_raises : BOOLEAN]
    /\ authRevision = webIn.use.rev
    /\ webOut = NoAnswer

Logged(r) ==
    \E i \in 1..Len(r.calls) : r.calls[i] = "log_search_activity"

UploadAndAnalyze ==
    /\ ~webIn.called
    /\ webIn.route = "upload-and-analyze"
    /\ webIn' = [webIn EXCEPT !.called = TRUE]
    /\ LET r == upload_and_analyze(webIn.use, webIn.header, webIn.file,
                    engine_report(webIn.image, revision, webIn.engine_raises))
       IN  /\ webOut' = r
           /\ history' = IF Logged(r)
                          THEN log_added(store, history, r.current_user.uid)
                          ELSE history
           /\ search_count' = IF Logged(r)
                               THEN log_counted(store, search_count, r.current_user.uid)
                               ELSE search_count
    /\ UNCHANGED <<engineVars, callVars, detVars, uploadVars, pwVars,
                   authRevision, store, logPc, logUid>>

NextAnalyze == UploadAndAnalyze

SpecAnalyze == InitAnalyze /\ [][NextAnalyze]_vars

\* Calls of firebase_auth.log_search_activity, made by the requests in
\* flight, on a store in which u2 has an account and no document.
InitLog ==
    /\ InitDefaultEngine
    /\ InitNoCalls
    /\ InitNoUploads
    /\ InitNoPasswords
    /\ InitNoLogs
    /\ authRevision \in AuthRevisions
    /\ store \in RegisterStores
    /\ webIn = NoRequest
    /\ webOut = NoAnswer

\* log_search_activity(uid, search_data) is entered; without a Firestore
\* client it does nothing.
LogBegin(p) ==
    /\ logPc[p] = "idle"
    /\ \E uid \in UIDs : logUid' = [logUid EXCEPT ![p] = uid]
    /\ logPc' = [logPc EXCEPT ![p] = IF store.connected THEN "add" ELSE "done"]
    /\ UNCHANGED <<engineVars, callVars, detVars, uploadVars, webVars, pwVars,
                   history, search_count>>

\* self.db.collection('search_history').add(search_log)
LogAdd(p) ==
    /\ logPc[p] = "add"
    /\ history' = log_added(store, history, logUid[p])
    /\ logPc' = [logPc EXCEPT ![p] = "update"]
    /\ UNCHANGED <<engineVars, callVars, detVars, uploadVars, webVars, pwVars,
                   logUid, search_count>>

\* user_ref.update({'search_count': firestore.Increment(1)}): the increment
\* is applied by the server in one step; NotFound for a missing document is
\* caught by the except clause.
LogUpdate(p) ==
    /\ logPc[p] = "update"
    /\ search_count' = log_counted(store, search_count, logUid[p])
    /\ logPc' = [logPc EXCEPT ![p] = "done"]
    /\ UNCHANGED <<engineVars, callVars, detVars, uploadVars, webVars, pwVars,
                   logUid, history>>

NextLog == \E p \in Requests : LogBegin(p) \/ LogAdd(p) \/ LogUpdate(p)

SpecLog == InitLog /\ [][NextLog]_vars

NextStats == SystemStats

SpecStats == InitStats /\ [][NextStats]_vars

Init ==
    /\ InitDefaultEngine
    /\ InitNoCalls
    /\ InitNoUploads
    /\ InitNoPasswords
    /\ InitNoLogs
    /\ InitNoWeb

\* upload_and_analyze has read the file of a request and calls
\* face_engine.process_uploaded_image(image_data).
Begin(p) ==
    /\ pc[p] = "idle"
    /\ \E img \in Images : image' = [image EXCEPT ![p] = img]
    /\ pc' = [pc EXCEPT ![p] = "open"]
    /\ UNCHANGED <<engineVars, pwVars, logVars, detVars, webVars, callVars, temp_path, linked, fs, seen, attributes,
                   ended, response>>

\* open(temp_path, 'wb') on the fixed path (simplified), or
\* tempfile.NamedTemporaryFile(delete=False), which creates a file of a
\* name no file has (enhanced).  The file is empty until written.
Open(p) ==
    /\ pc[p] = "open"
    /\ \E f \in Paths :
          /\ IF revision = "simplified"
             THEN f = <<FixedPath, 0>>
             ELSE f \in TempNames /\ fs[f] = "absent"
          /\ temp_path' = [temp_path EXCEPT ![p] = f]
          /\ fs' = [fs EXCEPT ![f] = "empty"]
    /\ linked' = [linked EXCEPT ![p] = TRUE]
    /\ pc' = [pc EXCEPT ![p] = "write"]
    /\ UNCHANGED <<engineVars, pwVars, logVars, detVars, webVars, callVars, image, seen, attributes, ended, response>>

\* f.write(image_data) and the close: the bytes reach the file the request
\* opened, which is the file at temp_path unless that one was removed since.
Write(p) ==
    /\ pc[p] = "write"
    /\ fs' = IF linked[p] THEN [fs EXCEPT ![temp_path[p]] = image[p]] ELSE fs
    /\ pc' = [pc EXCEPT ![p] = "detect"]
    /\ UNCHANGED <<engineVars, pwVars, logVars, detVars, webVars, callVars, image, temp_path, linked, seen, attributes,
                   ended, response>>

\* faces = self.detect_faces(temp_path); an exception leaves the try block
\* for the except clause, which returns the error dictionary.
Detect(p) ==
    /\ pc[p] = "detect"
    /\ seen' = [seen EXCEPT ![p] = fs[temp_path[p]]]
    /\ IF detect_faces(fs[temp_path[p]], revision).raised
       THEN /\ ended' = [ended EXCEPT ![p] = "DecodeError"]
            /\ pc' = [pc EXCEPT ![p] = "route"]
       ELSE /\ pc' = [pc EXCEPT ![p] = "analyze"]
            /\ ended' = ended
    /\ UNCHANGED <<engineVars, pwVars, logVars, detVars, webVars, callVars, image, temp_path, linked, fs, attributes, response>>

\* attributes = self.analyze_face_attributes(temp_path) if faces else {}
Analyze(p) ==
    /\ pc[p] = "analyze"
    /\ attributes' = [attributes EXCEPT ![p] =
                        IF faces(p) # << >>
                        THEN analyze_face_attributes(fs[temp_path[p]])
                        ELSE NoAttributes]
    /\ pc' = [pc EXCEPT ![p] = IF revision = "simplified" THEN "exists" ELSE "remove"]
    /\ UNCHANGED <<engineVars, pwVars, logVars, detVars, webVars, callVars, image, temp_path, linked, fs, seen, ended,
                   response>>

\* if os.path.exists(temp_path): (simplified)
Exists(p) ==
    /\ pc[p] = "exists"
    /\ pc' = [pc EXCEPT ![p] =
                IF fs[temp_path[p]] # "absent" THEN "remove" ELSE "return"]
    /\ UNCHANGED <<engineVars, pwVars, logVars, detVars, webVars, callVars, image, temp_path, linked, fs, seen,
                   attributes, ended, response>>

\* os.remove(temp_path): FileNotFoundError when no file is there, caught by
\* the except clause.  The files other requests hold open at that path are
\* no longer at the path.
Remove(p) ==
    /\ pc[p] = "remove"
    /\ IF fs[temp_path[p]] = "absent"
       THEN /\ ended' = [ended EXCEPT ![p] = "FileNotFoundError"]
            /\ pc' = [pc EXCEPT ![p] = "route"]
            /\ UNCHANGED <<fs, linked>>
       ELSE /\ fs' = [fs EXCEPT ![temp_path[p]] = "absent"]
            /\ linked' = [q \in Requests |->
                            IF temp_path[q] = temp_path[p] THEN FALSE ELSE linked[q]]
            /\ pc' = [pc EXCEPT ![p] = "return"]
            /\ ended' = ended
    /\ UNCHANGED <<engineVars, pwVars, logVars, detVars, webVars, callVars, image, temp_path, seen, attributes, response>>

\* return {'faces_detected': len(faces), 'faces': faces, ...}
Return(p) ==
    /\ pc[p] = "return"
    /\ ended' = [ended EXCEPT ![p] = "returned"]
    /\ pc' = [pc EXCEPT ![p] = "route"]
    /\ UNCHANGED <<engineVars, pwVars, logVars, detVars, webVars, callVars, image, temp_path, linked, fs, seen,
                   attributes, response>>

\* upload_and_analyze answers from face_analysis.
Respond(p) ==
    /\ pc[p] = "route"
    /\ response' = [response EXCEPT ![p] = route_response(result(p))]
    /\ pc' = [pc EXCEPT ![p] = "done"]
    /\ UNCHANGED <<engineVars, pwVars, logVars, detVars, webVars, callVars, image, temp_path, linked, fs, seen,
                   attributes, ended>>

Next ==
    \E p \in Requests :
        \/ Begin(p)
        \/ Open(p)
        \/ Write(p)
        \/ Detect(p)
        \/ Analyze(p)
        \/ Exists(p)
        \/ Remove(p)
        \/ Return(p)
        \/ Respond(p)

Spec == Init /\ [][Next]_vars

\* f.write(image_data) raises OSError (no space left on the device, an I/O
\* error): the except clause returns the error dictionary.  The file that
\* open or NamedTemporaryFile(delete=False) created stays where it is.
WriteFails(p) ==
    /\ pc[p] = "write"
    /\ ended' = [ended EXCEPT ![p] = "OSError"]
    /\ pc' = [pc EXCEPT ![p] = "route"]
    /\ UNCHANGED <<engineVars, pwVars, logVars, detVars, webVars, callVars, image, temp_path, linked, fs, seen,
                   attributes, response>>

NextWriteError == Next \/ \E p \in Requests : WriteFails(p)

\* The requests on a disk where a write can fail.
SpecWriteError == Init /\ [][NextWriteError]_vars

(***************************************************************************)
(* Properties of compare_faces, checked under SpecCompare.                 *)
(***************************************************************************)
Malformed(c) ==
    c.known.nonnum \/ c.unknown.nonnum \/ Len(c.known.v) # Len(c.unknown.v)

AllZero(v) == \A i \in 1..Len(v) : v[i] = 0

SelfCompare(c) ==
    /\ c.called
    /\ c.known = c.unknown
    /\ ~c.known.nonnum
    /\ ~AllZero(c.known.v)

\* C5 as the specification states it: comparing a nonzero encoding with
\* itself reports 100 percent and is_match = true for every threshold <= 1.
C5_SelfMatchUpTo1 ==
    (SelfCompare(cmpIn) /\ similarity_threshold <= 10) =>
        /\ cmpOut.value.similarity_percentage = 10000
        /\ cmpOut.value.is_match

\* C5 as the code has it: comparing a nonzero encoding with itself reports
\* 100.0 percent, distance 0 and confidence 'High', and is_match = true for
\* every threshold below 1; at the threshold 1 itself is_match is true when
\* the norm of the encoding is computed exactly.
C5_SelfMatchBelow1 ==
    SelfCompare(cmpIn) =>
        /\ cmpOut.value.similarity_percentage = 10000
        /\ cmpOut.value.distance = 0
        /\ cmpOut.value.confidence = "High"
        /\ similarity_threshold < 10 => cmpOut.value.is_match
        /\ (similarity_threshold = 10 /\ IsSquare(NormSq(cmpIn.known.v)))
               => cmpOut.value.is_match

C5_Witness ==
    /\ SelfCompare(cmpIn)
    /\ cmpIn.known.v = <<1, 1>>
    /\ similarity_threshold = 8
    /\ cmpOut.value.is_match

\* C6: for two numeric encodings of equal length of which one has norm 0,
\* compare_faces raises nothing and returns similarity_percentage 0,
\* distance 1 and is_match = (threshold <= 0).
C6_ZeroNormGivesZero ==
    ( /\ cmpIn.called
      /\ ~Malformed(cmpIn)
      /\ (AllZero(cmpIn.known.v) \/ AllZero(cmpIn.unknown.v)) ) =>
        /\ ~cmpOut.raised
        /\ cmpOut.value.similarity_percentage = 0
        /\ cmpOut.value.distance = 10000
        /\ cmpOut.value.is_match = (similarity_threshold <= 0)

C6_Witness ==
    /\ cmpIn.called
    /\ cmpIn.known.v = <<0, 0>> /\ cmpIn.unknown.v = <<0, 0>>
    /\ ~cmpIn.known.nonnum /\ ~cmpIn.unknown.nonnum
    /\ similarity_threshold = 0
    /\ cmpOut.value.is_match
    /\ cmpOut.value.distance = 10000

\* C7: compare_faces(a, b) and compare_faces(b, a) return the same
\* similarity_percentage, is_match, distance and confidence.
C7_Symmetric ==
    cmpIn.called =>
        cmpOut = compare_faces(cmpIn.unknown, cmpIn.known,
                               similarity_threshold, fpErr)

C7_Witness ==
    /\ cmpIn.called
    /\ ~Malformed(cmpIn)
    /\ NormSq(cmpIn.known.v) # NormSq(cmpIn.unknown.v)
    /\ cmpOut.value.similarity_percentage = 7071

\* C8 as the specification states it: the label is a function of the reported
\* percentage: 'High' iff it is above 80, 'Medium' iff it is above 60 and at
\* most 80, 'Low' iff it is at most 60.
C8_LabelByReported ==
    (cmpIn.called /\ ~Malformed(cmpIn)) =>
        LET pct == cmpOut.value.similarity_percentage
            lab == cmpOut.value.confidence
        IN  /\ lab = "High" <=> pct > 100 * HighPct
            /\ lab = "Medium" <=> (pct > 100 * MediumPct /\ pct <= 100 * HighPct)
            /\ lab = "Low" <=> pct <= 100 * MediumPct

\* C8 as the code has it: for input that raises no error the label is decided
\* by the percentage before it is rounded to two decimals: a reported
\* percentage above 80 is 'High', one below 80 is not 'High', one above 60 is
\* 'High' or 'Medium', one below 60 is 'Low'; a similarity that is exactly
\* 0.8 is 'Medium' and one that is exactly 0.6 is 'Low'.  A result that
\* reports exactly 80 or 60 may carry either neighbouring label, and
\* malformed input is labelled 'Error'.
C8_LabelByUnrounded ==
    cmpIn.called =>
        LET pct == cmpOut.value.similarity_percentage
            lab == cmpOut.value.confidence
            sim == similarity_of(cmpIn.known.v, cmpIn.unknown.v)
        IN  IF Malformed(cmpIn) THEN lab = "Error"
            ELSE /\ lab \in {"High", "Medium", "Low"}
                 /\ pct > 100 * HighPct => lab = "High"
                 /\ pct < 100 * HighPct => lab # "High"
                 /\ pct > 100 * MediumPct => lab \in {"High", "Medium"}
                 /\ pct < 100 * MediumPct => lab = "Low"
                 /\ (sim.exact /\ SimCmp(sim, HighPct, 100) = 0) => lab = "Medium"
                 /\ (sim.exact /\ SimCmp(sim, MediumPct, 100) = 0) => lab = "Low"

C8_Witness ==
    /\ cmpIn.called
    /\ cmpIn.known.v = <<1, 0, 0, 0>>
    /\ cmpIn.unknown.v = <<72, 53, 9, 5>>
    /\ cmpOut.value.similarity_percentage = 100 * HighPct
    /\ cmpOut.value.confidence = "High"

\* C9 as the specification states it: the threshold compare_faces uses lies
\* in [0, 1] whatever SIMILARITY_THRESHOLD holds, and is_match is true
\* exactly when the similarity reaches it.
C9_ThresholdClamped ==
    (cmpIn.called /\ ~Malformed(cmpIn)) =>
        /\ similarity_threshold >= 0
        /\ similarity_threshold <= 10
        /\ cmpOut.value.is_match =
              SimGeq(similarity_of(cmpIn.known.v, cmpIn.unknown.v),
                     Max(0, Min(10, getenv_threshold(env))), 10, fpErr)

NonNegativeEntries(v) == \A i \in 1..Len(v) : v[i] >= 0

\* r / 10^4 is the real number |sim| exactly.
IsExactly(r, sim) ==
    FracCmp(r * r, 100000000, sim.num * sim.num, sim.den2) = 0

\* r / 10^4 is within half a unit of the fourth decimal of |sim|.
IsRounded(r, sim) ==
    /\ r > 0 => FracLeq((2 * r - 1) * (2 * r - 1), 400000000,
                        sim.num * sim.num, sim.den2)
    /\ FracLeq(sim.num * sim.num, sim.den2,
               (2 * r + 1) * (2 * r + 1), 400000000)

NonNegative(e) == \A i \in 1..Len(e) : e[i].n >= 0 /\ e[i].d >= 0

\* C1 as the specification states it: create_face_encoding returns exactly
\* 256 numbers, each >= 0, for every region.
C1_EncodingHas256 ==
    encIn.called =>
        /\ ~encOut.raised
        /\ Len(encOut.value) = ZeroLen
        /\ NonNegative(encOut.value)

Readable(r) == ~ResizeFails(r) /\ ~HistFails(r) /\ ~LbpFails(r)

\* e[lo].n + ... + e[hi].n
SumCounts(e, lo, hi) == SumRange([i \in 1..Len(e) |-> e[i].n], lo, hi)

\* The entries lo..hi of e, each n / (d + 1e-7), sum to approximately 1.
SumsToOne(e, lo, hi) ==
    /\ \A i \in lo..hi : e[i].d = e[lo].d
    /\ e[lo].d > 0
    /\ SumCounts(e, lo, hi) = e[lo].d

\* The pixels of the resized region an intensity below 128 is read from.
DarkPixels(r) == { p \in Grid : ResizedAt(r, p[1], p[2]) < HistKeep }

\* C11 as the specification states it: in the encoding of a readable region
\* the 128 histogram values sum to approximately 1.0 and so do the texture
\* values after them, whatever the pixels of the region.
C11_HalvesSumToOne ==
    (encIn.called /\ Readable(encIn.region)) =>
        /\ SumsToOne(encOut.value, 1, HistKeep)
        /\ SumsToOne(encOut.value, HistKeep + 1, Len(encOut.value))

\* C11 as the code has it: the encoding of a readable region is the first
\* 128 of the 256 histogram buckets, each a pixel count over the 64 * 64
\* pixels, followed by the 16 texture buckets.  The histogram part sums to
\* the share of the pixels whose intensity is below 128 (1.0 only when all
\* are, 0 when none is); the texture part sums to approximately 1.0.
C11_HistogramPartSumsToDarkShare ==
    (encIn.called /\ Readable(encIn.region)) =>
        LET e == encOut.value
        IN  /\ Len(e) = HistKeep + LbpBins
            /\ \A i \in 1..HistKeep : e[i].d = FaceSide * FaceSide
            /\ SumCounts(e, 1, HistKeep) = Cardinality(DarkPixels(encIn.region))
            /\ SumsToOne(e, HistKeep + 1, Len(e))

C11_Witness ==
    /\ encIn.called
    /\ Readable(encIn.region)
    /\ encIn.region.kind = "split"
    /\ encIn.region.lo = 200 /\ encIn.region.hi = 50
    /\ 2 * SumCounts(encOut.value, 1, HistKeep) = FaceSide * FaceSide
    /\ SumsToOne(encOut.value, HistKeep + 1, Len(encOut.value))

(***************************************************************************)
(* Properties of process_uploaded_image and detect_faces.                  *)
(***************************************************************************)
NoFacesResponse == [code |-> 400, body |-> "no_faces_detected"]

\* C2 as stated: whatever the interleaving, a call that has returned gave
\* the result it gives running alone on its own image bytes.
C2_CallsIndependent ==
    \A p \in Requests :
        pc[p] = "done" => result(p) = process_alone(image[p], revision)

C13_NoFaceImageReportsZero ==
    \A p \in Requests :
        /\ (Detected(p) /\ seen[p] = "no_face") => faces(p) = << >>
        /\ (pc[p] = "done" /\ image[p] = "no_face") =>
               /\ result(p).faces_detected = 0
               /\ result(p).status = "no_faces_detected"

(***************************************************************************)
(* Properties of the regions detect_faces returns, checked under           *)
(* SpecDetect.                                                             *)
(***************************************************************************)
\* C14: every region detect_faces returns has a box of non-negative
\* integers with bottom > top and right > left, width = right - left,
\* height = bottom - top, and a confidence in [0, 1].
C14_BoxInvariants ==
    detIn.called =>
        \A i \in 1..Len(detOut.value) :
            LET f == detOut.value[i]
                box == f.location
            IN  /\ {box.top, box.left, box.bottom, box.right} \subseteq Nat
                /\ box.bottom > box.top
                /\ box.right > box.left
                /\ f.width = box.right - box.left
                /\ f.height = box.bottom - box.top
                /\ f.confidence >= 0 /\ f.confidence <= 10

C14_Witness ==
    /\ detIn.called
    /\ Len(detOut.value) = MaxFaces
    /\ detOut.value[1].location = [top |-> 7, right |-> 35, bottom |-> 37, left |-> 5]
    /\ detOut.value[1].width = 30
    /\ detOut.value[MaxFaces].location =
          [top |-> 0, right |-> FaceSide, bottom |-> FaceSide, left |-> 0]

\* C15: the confidence of the i-th returned face is min(1.0, eyes * 0.4 +
\* 0.6) for the number of eyes found in the i-th window: 0.6 without an
\* eye, 1.0 with one or more, and never below 0.6 or above 1.0.
C15_ConfidenceFromEyes ==
    (detIn.called /\ detIn.decoded) =>
        /\ Len(detOut.value) = Len(detIn.wins)
        /\ \A i \in 1..Len(detOut.value) :
              LET c == detOut.value[i].confidence
                  eyes == detIn.wins[i].eyes
              IN  /\ eyes = 0 => c = 6
                  /\ eyes >= 1 => c = 10
                  /\ c >= 6 /\ c <= 10

C15_Witness ==
    /\ detIn.called /\ detIn.decoded
    /\ Len(detIn.wins) = MaxFaces
    /\ detIn.wins[1].eyes = 0 /\ detOut.value[1].confidence = 6
    /\ detIn.wins[MaxFaces].eyes = MaxEyes
    /\ detOut.value[MaxFaces].confidence = 10

\* C16: detect_faces returns one region per window the face detector
\* accepted, in the order of the windows, the i-th (from 0) with face_id
\* = i, so that the ids are exactly 0..n-1; an image that does not decode
\* gives no region.
C16_IdsInScanOrder ==
    detIn.called =>
        LET n == Len(detOut.value)
        IN  /\ ~detOut.raised
            /\ n = IF detIn.decoded THEN Len(detIn.wins) ELSE 0
            /\ \A i \in 1..n :
                  /\ detOut.value[i].face_id = i - 1
                  /\ detOut.value[i].location.left = detIn.wins[i].x
                  /\ detOut.value[i].location.top = detIn.wins[i].y
                  /\ detOut.value[i].width = detIn.wins[i].w
            /\ { detOut.value[i].face_id : i \in 1..n } = 0..(n - 1)

C16_Witness ==
    /\ detIn.called /\ detIn.decoded
    /\ Len(detIn.wins) = MaxFaces
    /\ detIn.wins[1].x = 5 /\ detIn.wins[MaxFaces].x = 0
    /\ detOut.value[1].face_id = 0 /\ detOut.value[1].location.left = 5
    /\ detOut.value[MaxFaces].face_id = MaxFaces - 1
    /\ detOut.value[MaxFaces].location.left = 0

(***************************************************************************)
(* C17 as the specification states it: a handler wrapped by require_auth   *)
(* is never executed for a request without an Authorization header or     *)
(* whose token, after stripping an optional 'Bearer ' prefix, verify_token *)
(* rejects; such a request is answered 401; and whenever the handler runs  *)
(* request.current_user is the decoded token of the request.               *)
(***************************************************************************)
TokenOfRequest == verify_token(strip_bearer(webIn.header.value))

Unauthenticated == ~webIn.header.present \/ ~TokenOfRequest.ok

C17_UnauthenticatedGets401 ==
    (webIn.called /\ webIn.route = "system-stats") =>
        /\ Unauthenticated => (~webOut.handler_ran /\ webOut.code = 401)
        /\ webOut.handler_ran =>
               (TokenOfRequest.ok /\ webOut.current_user = TokenOfRequest)

\* C17, the part that holds in both revisions: the handler never runs for
\* an unauthenticated request, and runs with the decoded token.
C17_HandlerOnlyWithToken ==
    (webIn.called /\ webIn.route = "system-stats") =>
        /\ Unauthenticated => ~webOut.handler_ran
        /\ webOut.handler_ran =>
               (TokenOfRequest.ok /\ webOut.current_user = TokenOfRequest)

C17_Witness ==
    /\ webIn.called
    /\ webIn.use.form = "bare"
    /\ webIn.header = [present |-> TRUE, value |-> <<"Bearer ", "expired">>]
    /\ webOut.code = 401
    /\ ~webOut.handler_ran

(***************************************************************************)
(* C20: get_system_stats returns the statistics only to a caller whose     *)
(* stored profile exists and has the role admin; every other authenticated *)
(* caller (no profile, or any other role) is answered 403 'Admin access    *)
(* required' and gets no statistics.                                       *)
(***************************************************************************)
StoredAdmin(uid) ==
    /\ store.connected
    /\ store.docs[uid].exists
    /\ store.docs[uid].role = "admin"

C20_StatsOnlyForAdmin ==
    (webIn.called /\ webIn.route = "system-stats") =>
        /\ ~webOut.handler_ran => webOut.body # "stats"
        /\ webOut.handler_ran =>
               IF StoredAdmin(webOut.current_user.uid)
               THEN webOut.code = 200 /\ webOut.body = "stats"
               ELSE webOut.code = 403 /\ webOut.body = "admin_required"

C20_Witness ==
    /\ webIn.called
    /\ webOut.handler_ran
    /\ store.connected
    /\ store.docs[webOut.current_user.uid].exists
    /\ store.docs[webOut.current_user.uid].role = "police_officer"
    /\ webOut.current_user.role = "admin"
    /\ webOut.code = 403

(***************************************************************************)
(* C18 as the specification states it: POST /login checks in a fixed order *)
(* and stops at the first failure: missing id_token -> 400, token rejected *)
(* -> 401, no profile document -> 404, profile with active = false -> 403; *)
(* update_last_login is called only after all four checks pass, so the     *)
(* last_login of a deactivated or profile-less account is never changed    *)
(* by login.                                                               *)
(***************************************************************************)
LoginToken == verify_token(webIn.body.id_token)

LoginProfile ==
    IF store.connected THEN store.docs[LoginToken.uid] ELSE NoDoc

LastLoginWritten == \E u \in UIDs : store.docs[u].last_login # 0

UpdateCalled ==
    \E i \in 1..Len(webOut.calls) : webOut.calls[i] = "update_last_login"

LoginChecksAfterBody ==
    IF ~webIn.body.has_id_token THEN webOut.code = 400 /\ ~UpdateCalled
    ELSE IF ~LoginToken.ok THEN webOut.code = 401 /\ ~UpdateCalled
    ELSE IF ~LoginProfile.exists THEN webOut.code = 404 /\ ~UpdateCalled
    ELSE IF ~LoginProfile.active THEN webOut.code = 403 /\ ~UpdateCalled
    ELSE /\ webOut.code = 200
         /\ webOut.calls[Len(webOut.calls)] = "update_last_login"

C18_LoginChecksInOrder ==
    (webIn.called /\ webIn.route = "login") =>
        /\ LoginChecksAfterBody
        /\ LastLoginWritten => (UpdateCalled /\ webOut.code = 200)

\* C18 as the code has it: a body that is not a JSON object is answered 500
\* before the first check; for an object the order is as stated, and in no
\* case is last_login written unless every check passed.
C18_LoginChecksInOrderForObjects ==
    (webIn.called /\ webIn.route = "login") =>
        /\ IF webIn.body.kind = "null"
           THEN webOut.code = 500 /\ ~UpdateCalled
           ELSE LoginChecksAfterBody
        /\ LastLoginWritten => (UpdateCalled /\ webOut.code = 200)

C18_Witness ==
    /\ webIn.called
    /\ webIn.route = "login"
    /\ LoginToken.ok
    /\ LoginProfile.exists
    /\ ~LoginProfile.active
    /\ webOut.code = 403
    /\ ~LastLoginWritten

(***************************************************************************)
(* C19 as the specification states it: register calls create_police_user   *)
(* only when email, password, badge_number, department, rank and country   *)
(* are all present and non-empty, the lower-cased trimmed email matches   *)
(* the email pattern, the password passes validate_password and the       *)
(* country is 'burundi' or 'rwanda' ignoring case; otherwise it returns    *)
(* 400 without creating anything; and it returns 201 exactly when          *)
(* create_police_user reports success.                                     *)
(***************************************************************************)
NonEmpty(v) == v.present /\ (v.type = "num" \/ Len(v.s) > 0)

RegistrationAcceptable ==
    LET data == webIn.body
    IN  /\ data.kind = "object"
        /\ \A v \in {data.email, data.password, data.badge_number,
                      data.department, data.rank, data.country} : NonEmpty(v)
        /\ data.email.type = "str"
        /\ validate_email(strip(lower(data.email.s)))
        /\ data.password.type = "str"
        /\ validate_password(data.password.s)
        /\ data.country.type = "str"
        /\ lower(data.country.s) \in allowed_countries

CreateCalled == webOut.calls = <<"create_police_user">>

CreateReportsSuccess ==
    create_police_user(webIn.before, strip(lower(webIn.body.email.s)),
                       webIn.firestore_ok).success

C19_RegisterValidatesThenCreates ==
    (webIn.called /\ webIn.route = "register") =>
        /\ CreateCalled => RegistrationAcceptable
        /\ ~RegistrationAcceptable => (webOut.code = 400 /\ store = webIn.before)
        /\ webOut.code = 201 <=> (CreateCalled /\ CreateReportsSuccess)

\* C19 as the code has it: a request that is not acceptable is answered 400,
\* or 500 when its body is not an object or a value that must be a string
\* is not one; in both cases nothing is created.
C19_RegisterRejectsWith400Or500 ==
    (webIn.called /\ webIn.route = "register") =>
        /\ CreateCalled <=> RegistrationAcceptable
        /\ ~RegistrationAcceptable =>
               (webOut.code \in {400, 500} /\ store = webIn.before)
        /\ webOut.code = 201 <=> (CreateCalled /\ CreateReportsSuccess)

C19_Witness ==
    /\ webIn.called
    /\ webIn.route = "register"
    /\ webIn.body.email = Str(<<" ", "a", "@", "b", ".", "c", "o", " ">>)
    /\ webIn.body.country = Str(<<"R", "w", "a", "n", "d", "a">>)
    /\ webOut.code = 201
    /\ EmailPlain \in store.accounts
    /\ store.docs[NewUid] = NewDoc

(***************************************************************************)
(* C21: validate_password accepts a password iff it has length >= 8 and    *)
(* contains an uppercase letter, a lowercase letter, a digit and one of    *)
(* the listed special characters; for a rejected password the message      *)
(* names the first unmet rule in the order length, uppercase, lowercase,   *)
(* digit, special character.                                               *)
(***************************************************************************)
RuleOrder == <<"length", "uppercase", "lowercase", "digit", "special">>

RuleMet(rule, s) ==
    CASE rule = "length" -> Len(s) >= 8
      [] rule = "uppercase" -> \E k \in 1..Len(s) : IsUpper(s[k])
      [] rule = "lowercase" -> \E k \in 1..Len(s) : IsLower(s[k])
      [] rule = "digit" -> \E k \in 1..Len(s) : IsDigit(s[k])
      [] rule = "special" -> \E k \in 1..Len(s) : IsSpecial(s[k])

C21_PasswordRulesInOrder ==
    pwIn.called =>
        /\ pwOut.ok <=> \A i \in DOMAIN RuleOrder : RuleMet(RuleOrder[i], pwIn.password)
        /\ ~pwOut.ok =>
               \E i \in DOMAIN RuleOrder :
                   /\ pwOut.message = RuleOrder[i]
                   /\ ~RuleMet(RuleOrder[i], pwIn.password)
                   /\ \A j \in 1..(i - 1) : RuleMet(RuleOrder[j], pwIn.password)

C21_Witness ==
    /\ pwIn.called
    /\ Len(pwIn.password) >= 8
    /\ RuleMet("uppercase", pwIn.password)
    /\ ~RuleMet("lowercase", pwIn.password)
    /\ ~RuleMet("digit", pwIn.password)
    /\ pwOut = Verdict(FALSE, "lowercase")

(***************************************************************************)
(* C22: in upload_and_analyze the external side effects (storing the       *)
(* image, running the social-media search, logging the search activity)   *)
(* happen only after the request passed file validation and the engine     *)
(* reported at least one face, and in the order store -> search -> log; a  *)
(* request rejected for a missing file, empty name, disallowed extension,  *)
(* engine error or zero faces causes no upload, no search and no log       *)
(* entry.                                                                  *)
(***************************************************************************)
ExtensionOf(name) ==
    IF \E k \in 1..Len(name) : name[k] = "."
    THEN LET k == CHOOSE i \in 1..Len(name) :
                      name[i] = "." /\ \A m \in (i + 1)..Len(name) : name[m] # "."
         IN  lower(SubSeq(name, k + 1, Len(name)))
    ELSE <<"none">>

FilePassesValidation ==
    /\ webIn.file.present
    /\ webIn.file.filename # << >>
    /\ ExtensionOf(webIn.file.filename) \in ALLOWED_EXTENSIONS

EngineReport == engine_report(webIn.image, revision, webIn.engine_raises)

EngineReportsFace ==
    EngineReport.status # "error" /\ EngineReport.faces_detected >= 1

SideEffectOrder ==
    <<"upload_image_to_storage", "comprehensive_search", "log_search_activity">>

C22_EffectsOnlyAfterValidation ==
    (webIn.called /\ webIn.route = "upload-and-analyze") =>
        /\ \E n \in 0..3 : webOut.calls = SubSeq(SideEffectOrder, 1, n)
        /\ webOut.calls # << >> => (FilePassesValidation /\ EngineReportsFace)
        /\ ~(FilePassesValidation /\ EngineReportsFace) =>
               /\ webOut.calls = << >>
               /\ \A u \in UIDs : history[u] = 0 /\ search_count[u] = 0

C22_Witness ==
    /\ webIn.called
    /\ webIn.route = "upload-and-analyze"
    /\ webIn.file.filename = <<"a", ".", "J", "P", "G">>
    /\ webOut.code = 200
    /\ webOut.calls = SideEffectOrder
    /\ history["u1"] = 1

(***************************************************************************)
(* C23: the result of process_uploaded_image is internally consistent on   *)
(* every path: faces_detected = len(faces); status is 'success' iff faces  *)
(* is non-empty, 'no_faces_detected' iff faces is empty and no exception   *)
(* occurred, and 'error' only together with faces_detected = 0,            *)
(* faces = [] and an error text; attributes is {} whenever faces is empty. *)
(***************************************************************************)
C23_ResultConsistent ==
    \A p \in Requests :
        ended[p] # "running" =>
            LET r == result(p)
            IN  /\ r.faces_detected = Len(r.faces)
                /\ r.status = "success" <=> r.faces # << >>
                /\ r.status = "no_faces_detected" <=>
                       (r.faces = << >> /\ ended[p] = "returned")
                /\ r.status = "error" =>
                       (r.faces_detected = 0 /\ r.faces = << >> /\ r.error # "none")
                /\ r.status \in {"success", "no_faces_detected", "error"}
                /\ r.faces = << >> => r.attributes = NoAttributes

C23_Witness ==
    \E p, q \in Requests :
        /\ ended[p] = "returned"
        /\ result(p).status = "no_faces_detected"
        /\ ended[q] \notin {"running", "returned"}
        /\ Detected(q)
        /\ detect_faces(seen[q], revision).value # << >>
        /\ result(q).status = "error"

(***************************************************************************)
(* C24 as the specification states it: process_uploaded_image leaves no    *)
(* temporary file behind: on every return path (faces found, no faces, and *)
(* the error path taken when writing, detecting or removing raises), the   *)
(* temp file the call created no longer exists when the call returns.      *)
(***************************************************************************)
C24_NoTempFileLeft ==
    \A p \in Requests : ended[p] # "running" => ~linked[p]

\* C24 as the code has it: the file is gone when the call returns from its
\* try block or when os.remove raised; when the write raised the file stays
\* (on the shared path of the simplified revision, until another call
\* removes it).
C24_NoTempFileLeftUnlessWriteFailed ==
    \A p \in Requests :
        /\ (ended[p] # "running" /\ ended[p] # "OSError") => ~linked[p]
        /\ (ended[p] = "OSError" /\ revision = "enhanced") =>
               (linked[p] /\ fs[temp_path[p]] # "absent")

C24_Witness ==
    \E p \in Requests :
        /\ pc[p] = "done"
        /\ ended[p] = "OSError"
        /\ linked[p]
        /\ result(p).status = "error"

(***************************************************************************)
(* C25 as the specification states it: after any sequence (and any         *)
(* interleaving) of log_search_activity calls, a user's search_count       *)
(* equals the number of search_history records stored with that user's     *)
(* uid: each call either adds exactly one record and increments the count  *)
(* by exactly 1, or changes neither.                                       *)
(***************************************************************************)
NoLogCallRunning == \A p \in Requests : logPc[p] \in {"idle", "done"}

C25_CountEqualsRecords ==
    NoLogCallRunning => \A u \in UIDs : search_count[u] = history[u]

\* C25 as the code has it: the count equals the number of records for a
\* user whose police_users document exists; for a user without a document
\* every call adds a record and counts nothing.
C25_CountEqualsRecordsWithDocument ==
    NoLogCallRunning =>
        \A u \in UIDs :
            /\ history[u] =
                   IF store.connected
                   THEN Cardinality({ p \in Requests :
                                        logPc[p] = "done" /\ logUid[p] = u })
                   ELSE 0
            /\ search_count[u] = IF store.docs[u].exists THEN history[u] ELSE 0

C25_Witness ==
    /\ NoLogCallRunning
    /\ \A p \in Requests : logPc[p] = "done"
    /\ store.docs["u1"].exists
    /\ history["u1"] >= 1
    /\ search_count["u1"] = history["u1"]
    /\ history["u2"] >= 1
    /\ search_count["u2"] = 0

====
